---- MODULE Spec2Model ----
(***************************************************************************)
(* A model of dbfread's Table (src/dbfread/dbf.py): the constructor        *)
(* (header and field-descriptor parsing, validation, memo-file lookup),    *)
(* the load/unload lifecycle and the record-scanning generator             *)
(* _iter_records with the decode and skip branches.                        *)
(*                                                                         *)
(* The table file is a byte string with the layout the two struct formats  *)
(* of the source give it; every read of the model goes through a file      *)
(* handle (a position) over those bytes.                                   *)
(***************************************************************************)
EXTENDS Integers, Sequences, FiniteSets, TLC

VARIABLES
    disk,          \* the files: the table file's content and the memo file
    args,          \* the constructor's arguments (raw, load)
    py3,           \* the interpreter: TRUE Python 3, FALSE Python 2
    pc,            \* the constructor's position
    error,         \* the exception the constructor raised ("" when none)
    header,        \* self.header
    encoding,      \* self.encoding
    fields,        \* self.fields
    memofilename,  \* self.memofilename
    memofile,      \* self.memofile
    records,       \* self.records
    deleted,       \* self.deleted
    loaded,        \* self.loaded
    gens,          \* the _iter_records generators the caller holds
    scanned,       \* whether any traversal has opened the table file
    date,          \* self.date
    leaked,        \* whether a traversal run to its end by load(), len() or
                   \* a for loop has left its file handle open
    last           \* the last iteration or length query on self.records or
                   \* self.deleted, and what it did

vars == <<disk, args, py3, pc, error, header, encoding, fields, memofilename,
          memofile, records, deleted, loaded, gens, scanned, date, leaked, last>>

(***************************************************************************)
(* Bounds of the model.                                                    *)
(***************************************************************************)
\* Field descriptors in a table file.
MaxFields == 2
\* Bytes in the record area of a table file.
MaxRecArea == 4
\* The two-digit years of the header's date of last update.
MaxYear == 99

(***************************************************************************)
(* Constants of the file format.                                           *)
(***************************************************************************)
\* struct size of DBFHeader, '<BBBBLHHHBBLLLBBH'
HeaderSize == 32
\* struct size of DBFField, '<11scLBBHBBBB7sB'
FieldSize == 32
\* b'\x0d', the terminator of the field-descriptor section
CR == 13
\* '\n'
LF == 10
\* b'\x1a', the end-of-file sentinel of the record area
EOFMark == 26
\* b' ', the marker of an active record
Space == 32
\* b'*', the marker of a deleted record
Star == 42
\* The byte values of the type codes (ord) and back (parse_string of the one
\* type byte).
TypeChars == {"0", "I", "L", "M", "C", "X"}

Ord(c) ==
    CASE c = "0" -> 48
      [] c = "I" -> 73
      [] c = "L" -> 76
      [] c = "M" -> 77
      [] c = "C" -> 67
      [] c = "X" -> 88
      [] c = "1" -> 49

Chr(b) ==
    IF \E c \in TypeChars : Ord(c) = b
    THEN CHOOSE c \in TypeChars : Ord(c) = b
    ELSE "?"

Min(a, b) == IF a < b THEN a ELSE b

RECURSIVE SumLen(_)
SumLen(s) == IF s = <<>> THEN 0 ELSE Head(s).length + SumLen(Tail(s))

(***************************************************************************)
(* The table file: a byte string.  Header and field descriptors have the   *)
(* layout of the two struct formats; a terminator byte and the record area *)
(* follow the last descriptor.                                             *)
(***************************************************************************)
\* The 32 bytes of a header with the given date, header length, record
\* length and language driver (little-endian, as '<BBBBLHHH...' packs them).
HeaderBytes(year, month, day, headerlen, recordlen, ld) ==
    [k \in 1..HeaderSize |->
        CASE k = 1 -> 3
          [] k = 2 -> year
          [] k = 3 -> month
          [] k = 4 -> day
          [] k = 9 -> headerlen % 256
          [] k = 10 -> headerlen \div 256
          [] k = 11 -> recordlen % 256
          [] k = 12 -> recordlen \div 256
          [] k = 30 -> ld
          [] OTHER -> 0]

\* The 32 bytes of the i-th field descriptor: an 11-byte name, the type
\* code, a 4-byte address, the length, and flag bytes.
FieldBytes(i, f) ==
    [k \in 1..FieldSize |->
        CASE k = 1 -> 64 + i
          [] k = 12 -> Ord(f.type)
          [] k = 17 -> f.length
          [] OTHER -> 0]

RECURSIVE AllFieldBytes(_, _)
AllFieldBytes(fs, i) ==
    IF i > Len(fs) THEN <<>> ELSE FieldBytes(i, fs[i]) \o AllFieldBytes(fs, i + 1)

\* The terminator bytes: "CR" 0x0D, "LF" 0x0A, "EOF" none (the file ends).
TermBytes(term) ==
    CASE term = "CR" -> <<CR>>
      [] term = "LF" -> <<LF>>
      [] term = "EOF" -> <<>>

(***************************************************************************)
(* File handles: f.read(n) returns at most n bytes, fewer at end of file,  *)
(* and advances the position by what it returned; f.seek(n, 1) moves the   *)
(* position, past the end of the file too.  d is the file's content.       *)
(***************************************************************************)
ReadBytes(d, pos, n) == SubSeq(d, pos + 1, Min(pos + n, Len(d)))

ReadPos(d, pos, n) == IF pos >= Len(d) THEN pos ELSE Min(pos + n, Len(d))

SeekCur(pos, n) == pos + n

(***************************************************************************)
(* Collaborators of the table that live outside dbf.py.                    *)
(***************************************************************************)
\* codepages.guess_encoding: the encoding of a language-driver code, or a
\* LookupError for a code it does not know.
guess_encoding(ld) == IF ld = 3 THEN "cp1252" ELSE "LookupError"

\* common.parse_string: bytes decoded to text with an encoding.  The empty
\* text is the same text under every encoding.
parse_string(data, enc) ==
    [kind |-> "text", data |-> data, tag |-> IF data = <<>> THEN "" ELSE enc]

\* A field's name: the bytes of the 11-byte name before the padding.
parse_name(data) == SelectSeq(data, LAMBDA b : b # 0)

\* FieldParser.field_type_supported
SupportedTypes == {"0", "I", "L", "M", "C"}

field_type_supported(type) == type \in SupportedTypes

\* A byte string that holds nothing but padding.
IsBlank(data) == \A k \in 1..Len(data) : data[k] = Space

\* FieldParser.parse: the decoded value of a field's bytes.  A memo field
\* decodes to None when blank and to a memo pointer otherwise.
parse(field, data) ==
    IF field.type = "M"
    THEN IF IsBlank(data)
         THEN [kind |-> "none", data |-> <<>>, tag |-> ""]
         ELSE [kind |-> "pointer", data |-> data, tag |-> ""]
    ELSE [kind |-> "parsed", data |-> data, tag |-> field.type]

\* FPT.__getitem__: the memo a pointer names in the memo file; mf is what the
\* memo file holds: text memos ("memo"), binary memos ("picture") or no memo
\* at all ("empty": every lookup fails).
MemoLookup(mf, pointer) ==
    IF mf = "empty"
    THEN [found |-> FALSE, type |-> "", data |-> <<>>]
    ELSE [found |-> TRUE, type |-> mf, data |-> <<Ord("M")>> \o pointer.data]

\* ifiles.ifind(filename, ext='.fpt'): whether a memo file is on disk.
ifind_fpt(dk) == dk.fpt # "absent"

(***************************************************************************)
(* expand_year, datetime.date                                              *)
(***************************************************************************)
\* expand_year with the comparison off by one.
expand_year_le(year) == IF year <= 80 THEN 2000 + year ELSE 1900 + year

\* expand_year(year)
expand_year(year) == IF year < 80 THEN 2000 + year ELSE 1900 + year

IsLeap(y) == y % 4 = 0 /\ (y % 100 # 0 \/ y % 400 = 0)

DaysInMonth(y, m) ==
    IF m = 2 THEN (IF IsLeap(y) THEN 29 ELSE 28)
    ELSE IF m \in {4, 6, 9, 11} THEN 30 ELSE 31

\* datetime.date(y, m, d) raises ValueError unless the date exists.
IsDate(y, m, d) == m \in 1..12 /\ d \in 1..DaysInMonth(y, m)

(***************************************************************************)
(* Table._read_headers                                                     *)
(***************************************************************************)
\* DBFHeader.read / DBFField.read: struct.unpack needs the struct's size.
UnpackHeader(data) ==
    [year |-> data[2], month |-> data[3], day |-> data[4],
     headerlen |-> data[9] + 256 * data[10],
     recordlen |-> data[11] + 256 * data[12],
     language_driver |-> data[30]]

UnpackField(data) ==
    [name |-> parse_name(SubSeq(data, 1, 11)),
     type |-> Chr(data[12]),
     length |-> data[17]]

NoHeader ==
    [year |-> 0, month |-> 0, day |-> 0, headerlen |-> 0, recordlen |-> 0,
     language_driver |-> 0]

\* sep in (b'\x0d', '\n', ''): under Python 3 a bytes object equals no str,
\* so only b'\x0d' matches; under Python 2 the three are byte strings.
IsHeaderEnd(p3, sep) ==
    IF p3 THEN sep = <<CR>>
    ELSE sep \in {<<CR>>, <<LF>>, <<>>}

\* The while loop that reads the field descriptors from position pos on:
\* the fields read, the position reached and the error raised, if any.
RECURSIVE ReadFieldHeaders(_, _, _, _)
ReadFieldHeaders(d, p3, pos, acc) ==
    LET sep == ReadBytes(d, pos, 1)
        pos1 == ReadPos(d, pos, 1)
        data == sep \o ReadBytes(d, pos1, FieldSize - Len(sep))
        pos2 == ReadPos(d, pos1, FieldSize - Len(sep))
    IN  IF IsHeaderEnd(p3, sep)
        THEN [error |-> "", fields |-> acc, pos |-> pos1]
        ELSE IF Len(data) # FieldSize
             THEN [error |-> "struct.error", fields |-> acc, pos |-> pos2]
             ELSE ReadFieldHeaders(d, p3, pos2, Append(acc, UnpackField(data)))

\* self.encoding after _read_headers.
ResolveEncoding(given, ld) ==
    IF given # "" THEN given
    ELSE IF guess_encoding(ld) = "LookupError" THEN "latin1"
         ELSE guess_encoding(ld)

HasMemoField(fs) == \E k \in 1..Len(fs) : fs[k].type = "M"

\* What _read_headers leaves in the table and the error it raises.
ReadHeaders(dk, given, p3) ==
    LET d == dk.dbf
        hdata == ReadBytes(d, 0, HeaderSize)
        h == IF Len(hdata) = HeaderSize THEN UnpackHeader(hdata) ELSE NoHeader
        r == ReadFieldHeaders(d, p3, HeaderSize, <<>>)
    IN  IF Len(hdata) # HeaderSize
        THEN [error |-> "struct.error", header |-> NoHeader, fields |-> <<>>,
              encoding |-> given, memofilename |-> "", pos |-> Len(hdata)]
        ELSE [error |-> IF r.error # "" THEN r.error
                        ELSE IF Len(r.fields) < 1 THEN "no_fields"
                        ELSE IF HasMemoField(r.fields) /\ ~ifind_fpt(dk)
                             THEN "missing_memo"
                        ELSE "",
              header |-> h,
              fields |-> r.fields,
              encoding |-> ResolveEncoding(given, h.language_driver),
              memofilename |-> IF r.error = "" /\ Len(r.fields) >= 1
                                  /\ HasMemoField(r.fields) /\ ifind_fpt(dk)
                               THEN "fpt" ELSE "",
              pos |-> r.pos]

(***************************************************************************)
(* Table._check_headers                                                    *)
(***************************************************************************)
\* _check_headers without its branch for the logical type.
CheckFieldNoLogical(field) ==
    IF field.type = "0" /\ field.length # 1 THEN "type_0_length"
    ELSE IF field.type = "I" /\ field.length # 4 THEN "type_I_length"
    ELSE IF ~field_type_supported(field.type) THEN "unknown_type"
    ELSE ""

\* The error one field raises ("" when it passes).
CheckField(field) ==
    IF field.type = "0" /\ field.length # 1 THEN "type_0_length"
    ELSE IF field.type = "I" /\ field.length # 4 THEN "type_I_length"
    ELSE IF field.type = "L" /\ field.length # 1 THEN "type_L_length"
    ELSE IF ~field_type_supported(field.type) THEN "unknown_type"
    ELSE ""

\* The error of the first field that fails ("" when all pass).
RECURSIVE CheckHeaders(_)
CheckHeaders(fs) ==
    IF fs = <<>> THEN ""
    ELSE IF CheckField(Head(fs)) # "" THEN CheckField(Head(fs))
    ELSE CheckHeaders(Tail(fs))

\* The ValueErrors of _check_headers and the one of an empty field list.
CheckErrors == {"type_0_length", "type_I_length", "type_L_length", "unknown_type"}

(***************************************************************************)
(* Table._read_record, Table._skip_record                                  *)
(***************************************************************************)
\* _read_record decoding a text memo with the fallback encoding instead of
\* the table's.
FieldResultLatin1(field, data) ==
    IF args.raw
    THEN [error |-> "", value |-> [kind |-> "bytes", data |-> data, tag |-> ""]]
    ELSE LET value == parse(field, data)
             memo == MemoLookup(disk.fpt, value)
         IN  IF field.type # "M"
             THEN [error |-> "", value |-> value]
             ELSE IF value.kind = "none"
             THEN [error |-> "", value |-> parse_string(<<>>, encoding)]
             ELSE IF memofile = "None"
             THEN [error |-> "TypeError", value |-> value]
             ELSE IF ~memo.found
             THEN [error |-> "memo_not_found", value |-> value]
             ELSE IF memo.type = "memo" /\ ~args.raw
             THEN [error |-> "", value |-> parse_string(memo.data, "latin1")]
             ELSE [error |-> "",
                   value |-> [kind |-> "bytes", data |-> memo.data, tag |-> ""]]

\* The value of one field from its bytes, and the error its memo lookup
\* raises, if any.
FieldResult(field, data) ==
    IF args.raw
    THEN [error |-> "", value |-> [kind |-> "bytes", data |-> data, tag |-> ""]]
    ELSE LET value == parse(field, data)
             memo == MemoLookup(disk.fpt, value)
         IN  IF field.type # "M"
             THEN [error |-> "", value |-> value]
             ELSE IF value.kind = "none"
             THEN [error |-> "", value |-> parse_string(<<>>, encoding)]
             ELSE IF memofile = "None"
             THEN [error |-> "TypeError", value |-> value]
             ELSE IF ~memo.found
             THEN [error |-> "memo_not_found", value |-> value]
             ELSE IF memo.type = "memo" /\ ~args.raw
             THEN [error |-> "", value |-> parse_string(memo.data, encoding)]
             ELSE [error |-> "",
                   value |-> [kind |-> "bytes", data |-> memo.data, tag |-> ""]]

\* The loop over self.fields from field k on, the handle at pos: the items
\* (FieldValue) built, the position reached and the error raised, if any.
RECURSIVE ReadItems(_, _, _)
ReadItems(k, pos, items) ==
    IF k > Len(fields)
    THEN [error |-> "", items |-> items, pos |-> pos]
    ELSE LET field == fields[k]
             data == ReadBytes(disk.dbf, pos, field.length)
             r == FieldResult(field, data)
         IN  IF r.error # ""
             THEN [error |-> r.error, items |-> items,
                   pos |-> ReadPos(disk.dbf, pos, field.length)]
             ELSE ReadItems(k + 1, ReadPos(disk.dbf, pos, field.length),
                            Append(items, [name |-> field.name, value |-> r.value]))

\* _read_record(f), f at pos: recfactory(items).
ReadRecord(pos) == ReadItems(1, pos, <<>>)

\* _skip_record seeking by the header's record length, which counts the
\* marker byte the traversal has already read.
SkipRecordByRecordlen(pos) == SeekCur(pos, header.recordlen)

\* _skip_record(infile), infile at pos: the position after the seek.
SkipRecord(pos) == SeekCur(pos, SumLen(fields))

(***************************************************************************)
(* Table._iter_records                                                     *)
(***************************************************************************)
\* interesting_record with the second branch taken for a space whatever
\* class was asked for.
IsInterestingNoClass(del, sep) ==
    IF del /\ sep = <<Star>> THEN TRUE
    ELSE IF sep = <<Space>> THEN TRUE
    ELSE FALSE

\* interesting_record
IsInteresting(del, sep) ==
    IF del /\ sep = <<Star>> THEN TRUE
    ELSE IF ~del /\ sep = <<Space>> THEN TRUE
    ELSE FALSE

\* The separator check left out.
IsBadSeparatorNever(sep) == FALSE

\* sep not in b' *', for a sep of one byte
IsBadSeparator(sep) == sep \notin {<<Space>>, <<Star>>}

\* The generator's body with every record handed to _read_record when
\* read is set, a record of the other class being decoded and dropped.
RECURSIVE ScanDecodingAll(_, _, _)
ScanDecodingAll(pos, del, read) ==
    LET sep == ReadBytes(disk.dbf, pos, 1)
        pos1 == ReadPos(disk.dbf, pos, 1)
        rec == ReadRecord(pos1)
    IN  IF sep = <<>> \/ sep = <<EOFMark>>
        THEN [st |-> "done", error |-> "", item |-> <<>>, slot |-> pos, pos |-> pos1,
              decoded |-> <<>>]
        ELSE IF IsBadSeparator(sep)
        THEN [st |-> "error", error |-> "invalid_separator", item |-> <<>>,
              slot |-> pos, pos |-> pos1, decoded |-> <<>>]
        ELSE IF read
        THEN IF rec.error # ""
             THEN [st |-> "error", error |-> rec.error, item |-> <<>>,
                   slot |-> pos, pos |-> rec.pos, decoded |-> <<pos>>]
             ELSE IF IsInteresting(del, sep)
             THEN [st |-> "yield", error |-> "", item |-> rec.items,
                   slot |-> pos, pos |-> rec.pos, decoded |-> <<pos>>]
             ELSE LET s == ScanDecodingAll(rec.pos, del, read)
                  IN  [s EXCEPT !.decoded = <<pos>> \o s.decoded]
        ELSE IF IsInteresting(del, sep)
        THEN [st |-> "yield", error |-> "", item |-> <<>>,
              slot |-> pos, pos |-> SkipRecord(pos1), decoded |-> <<>>]
        ELSE ScanDecodingAll(SkipRecord(pos1), del, read)

\* The generator's body from the top of its while loop, the handle at pos, up
\* to its next yield, return or raise: what happened (st), the item yielded,
\* the offset of the marker of the record yielded (slot), the position of
\* the handle and the offsets of the records handed to _read_record.
RECURSIVE Scan(_, _, _)
Scan(pos, del, read) ==
    LET sep == ReadBytes(disk.dbf, pos, 1)
        pos1 == ReadPos(disk.dbf, pos, 1)
        rec == ReadRecord(pos1)
        none == [kind |-> "none", data |-> <<>>, tag |-> ""]
    IN  IF sep = <<>> \/ sep = <<EOFMark>>
        THEN [st |-> "done", error |-> "", item |-> <<>>, slot |-> pos, pos |-> pos1,
              decoded |-> <<>>]
        ELSE IF IsBadSeparator(sep)
        THEN [st |-> "error", error |-> "invalid_separator", item |-> <<>>,
              slot |-> pos, pos |-> pos1, decoded |-> <<>>]
        ELSE IF IsInteresting(del, sep)
        THEN IF read
             THEN IF rec.error # ""
                  THEN [st |-> "error", error |-> rec.error, item |-> <<>>,
                        slot |-> pos, pos |-> rec.pos, decoded |-> <<pos>>]
                  ELSE [st |-> "yield", error |-> "", item |-> rec.items,
                        slot |-> pos, pos |-> rec.pos, decoded |-> <<pos>>]
             ELSE [st |-> "yield", error |-> "", item |-> <<>>,
                   slot |-> pos, pos |-> SkipRecord(pos1), decoded |-> <<>>]
        ELSE Scan(SkipRecord(pos1), del, read)

\* The generator's first position: open(self.filename), seek(headerlen, 0).
FirstPos == header.headerlen

\* The handle closed by the return at the end of the file only, an
\* exception leaving the generator's body with the handle open.
HandleOpenNoWith(st) == st \in {"yield", "error"}

\* The handle of a generator whose body has yielded, returned or raised:
\* "with open(...) as infile" closes the handle however the body is left.
HandleOpen(st) == st = "yield"

\* A whole traversal, as list() and len() drive it: the items yielded up to
\* the return or the raise.
RECURSIVE RunAll(_, _, _, _)
RunAll(pos, del, read, out) ==
    LET s == Scan(pos, del, read)
    IN  IF s.st = "yield" THEN RunAll(s.pos, del, read, Append(out, s.item))
        ELSE [error |-> s.error, items |-> out, open |-> HandleOpen(s.st)]

\* The offsets of the records a whole traversal hands to _read_record.
RECURSIVE RunDecoded(_, _, _)
RunDecoded(pos, del, read) ==
    LET s == Scan(pos, del, read)
    IN  IF s.st = "yield" THEN s.decoded \o RunDecoded(s.pos, del, read)
        ELSE s.decoded

\* list(RecordIterator(self)) whatever class was asked for.
ListRecordsActive(del) == RunAll(header.headerlen, FALSE, TRUE, <<>>)

\* list(iterator): list() asks the iterator for its length first (hint,
\* what RecordIterator.__len__ does) and then iterates it (r, what
\* RecordIterator.__iter__ does); an exception of the length query is the
\* exception of list().
ListAfterHint(hint, r) ==
    IF hint.error # ""
    THEN [error |-> hint.error, items |-> <<>>, open |-> hint.open]
    ELSE [error |-> r.error, items |-> r.items, open |-> hint.open \/ r.open]

\* list(RecordIterator(self, deleted=del))
ListRecords(del) ==
    ListAfterHint(RunAll(FirstPos, del, FALSE, <<>>),
                  RunAll(FirstPos, del, TRUE, <<>>))

(***************************************************************************)
(* The inputs of the model: table files, memo files, arguments.            *)
(***************************************************************************)
\* The field descriptors (type, length) of the files the constructor is
\* checked on.
AllFieldChoices == [type : TypeChars, length : {1, 4}]

\* The schemas of the files the traversals are checked on: a text field of
\* one byte, of no byte, a memo field, a text and a memo field.
ScanSchemas ==
    {<<[type |-> "C", length |-> 1]>>,
     <<[type |-> "C", length |-> 0]>>,
     <<[type |-> "M", length |-> 1]>>,
     <<[type |-> "C", length |-> 1], [type |-> "M", length |-> 1]>>}

\* A digit, b'1': a data byte that is no marker.
Digit1 == Ord("1")

\* The bytes of a record area.
RecBytes == {Space, Star, EOFMark, Digit1}

Schemas(choices, n) == UNION {[1..k -> choices] : k \in 0..n}

RecAreas(n) == UNION {[1..k -> RecBytes] : k \in 0..n}

\* A table file with the descriptors fs, ended by term and followed by the
\* record area rec, whose header states where the record area starts.
MakeDbf(fs, term, rec, ld) ==
    HeaderBytes(99, 12, 31, HeaderSize + FieldSize * Len(fs) + 1,
                1 + SumLen(fs), ld)
    \o AllFieldBytes(fs, 1) \o TermBytes(term) \o rec

\* The same with the date of last update ymd and the record length recordlen
\* in its header.
MakeDbfWith(fs, term, rec, ld, ymd, recordlen) ==
    HeaderBytes(ymd[1], ymd[2], ymd[3], HeaderSize + FieldSize * Len(fs) + 1,
                recordlen, ld)
    \o AllFieldBytes(fs, 1) \o TermBytes(term) \o rec

\* What the memo file of a table holds.
MemoFiles == {"absent", "memo", "picture", "empty"}

\* A generator nobody has created yet.  decoded: the offsets of the records
\* its body has handed to _read_record.
IdleGen ==
    [st |-> "idle", deleted |-> FALSE, read |-> FALSE, pos |-> 0,
     open |-> FALSE, out |-> <<>>, slots |-> <<>>, error |-> "",
     decoded |-> <<>>]

\* self.date before the constructor sets it.
NoDate == [year |-> 0, month |-> 0, day |-> 0]

\* No iteration or length query since the last load() or unload().
NoQuery ==
    [op |-> "none", deleted |-> FALSE, opens |-> 0, decoded |-> <<>>,
     items |-> <<>>, count |-> 0, error |-> ""]

\* The table before its constructor has run, on the files dk, called with
\* the arguments a under the interpreter p3, the caller holding the
\* generators G.
Fresh(dk, a, p3, G) ==
    /\ disk = dk
    /\ args = a
    /\ py3 = p3
    /\ pc = "new"
    /\ error = ""
    /\ header = NoHeader
    /\ encoding = ""
    /\ fields = <<>>
    /\ memofilename = ""
    /\ memofile = "None"
    /\ records = [kind |-> "unset", items |-> <<>>]
    /\ deleted = [kind |-> "list", items |-> <<>>]
    /\ loaded = FALSE
    /\ gens = [g \in G |-> IdleGen]
    /\ scanned = FALSE
    /\ date = NoDate
    /\ leaked = FALSE
    /\ last = NoQuery

\* The memo files a table with the schema fs may come with when it is opened
\* in raw mode or not: none when no field is a memo field; where the memos
\* are looked up, text memos, binary memos or a memo file without the memo;
\* in raw mode, where the memo file is not opened, binary memos.
ScanMemoFiles(fs, raw) ==
    IF ~HasMemoField(fs) THEN {"absent"}
    ELSE IF raw THEN {"picture"}
    ELSE {"memo", "picture", "empty"}

\* The schemas of the files two interleaved traversals are checked on.
PairSchemas ==
    {<<[type |-> "C", length |-> 1]>>,
     <<[type |-> "C", length |-> 0]>>}

\* Tables the traversals are checked on: a terminated descriptor section
\* with one of the schemas and any record area, opened with raw one of
\* raws.  The caller holds the generators G.
ScanInit(schemas, raws, G) ==
    \E fs \in schemas, rec \in RecAreas(MaxRecArea), raw \in raws :
      \E mf \in ScanMemoFiles(fs, raw) :
        Fresh([dbf |-> MakeDbf(fs, "CR", rec, 3), fpt |-> mf],
              [raw |-> raw, load |-> FALSE, encoding |-> ""], TRUE, G)

\* One generator at a time.
Init == ScanInit(ScanSchemas, BOOLEAN, {1})

(***************************************************************************)
(* Table.__init__                                                          *)
(***************************************************************************)
\* with open(self.filename) as f: self._read_headers(f)
InitReadHeaders ==
    /\ pc = "new"
    /\ LET r == ReadHeaders(disk, args.encoding, py3)
       IN  /\ header' = r.header
           /\ encoding' = r.encoding
           /\ fields' = r.fields
           /\ memofilename' = r.memofilename
           /\ error' = r.error
           /\ pc' = IF r.error = "" THEN "headers_read" ELSE "failed"
    /\ UNCHANGED <<disk, args, py3, memofile, records, deleted, loaded, gens, scanned,
                   date, leaked, last>>

\* self._check_headers()
InitCheckHeaders ==
    /\ pc = "headers_read"
    /\ error' = CheckHeaders(fields)
    /\ pc' = IF CheckHeaders(fields) = "" THEN "checked" ELSE "failed"
    /\ UNCHANGED <<disk, args, py3, header, encoding, fields, memofilename,
                   memofile, records, deleted, loaded, gens, scanned,
                   date, leaked, last>>

\* self.date = datetime.date(expand_year(self.header.year), month, day)
InitDate ==
    /\ pc = "checked"
    /\ LET y == expand_year(header.year)
       IN  IF IsDate(y, header.month, header.day)
           THEN /\ date' = [year |-> y, month |-> header.month, day |-> header.day]
                /\ pc' = "dated"
                /\ UNCHANGED error
           ELSE /\ error' = "date_ValueError"
                /\ pc' = "failed"
                /\ UNCHANGED date
    /\ UNCHANGED <<disk, args, py3, header, encoding, fields, memofilename,
                   memofile, records, deleted, loaded, gens, scanned, leaked, last>>

\* The constructor leaving self.memofile None whatever the schema.
InitMemoNoFile ==
    /\ pc = "dated"
    /\ memofile' = "None"
    /\ pc' = "memo_ready"
    /\ UNCHANGED <<disk, args, py3, error, header, encoding, fields, memofilename,
                   records, deleted, loaded, gens, scanned, date, leaked, last>>

\* self.memofile = FPT(self.memofilename) or None
InitMemo ==
    /\ pc = "dated"
    /\ memofile' = IF memofilename # "" /\ ~args.raw THEN "FPT" ELSE "None"
    /\ pc' = "memo_ready"
    /\ UNCHANGED <<disk, args, py3, error, header, encoding, fields, memofilename,
                   records, deleted, loaded, gens, scanned, date, leaked, last>>

(***************************************************************************)
(* Table.load, Table.unload                                                *)
(***************************************************************************)
\* load(): the two lists are built one after the other; an exception of a
\* traversal leaves what was not yet assigned as it was.
\* r: list(RecordIterator(self)); d: list(RecordIterator(self, deleted=True))
LoadLists(r, d) ==
    /\ scanned' = TRUE
    /\ leaked' = (leaked \/ r.open \/ (r.error = "" /\ d.open))
    /\ last' = NoQuery
    /\ IF r.error # ""
       THEN /\ error' = r.error
            /\ UNCHANGED <<records, deleted, loaded>>
       ELSE /\ records' = [kind |-> "list", items |-> r.items]
            /\ IF d.error # ""
               THEN /\ error' = d.error
                    /\ UNCHANGED <<deleted, loaded>>
               ELSE /\ error' = ""
                    /\ deleted' = [kind |-> "list", items |-> d.items]
                    /\ loaded' = TRUE

DoLoad == LoadLists(ListRecords(FALSE), ListRecords(TRUE))

\* unload()
DoUnload ==
    /\ records' = [kind |-> "iter", items |-> <<>>]
    /\ deleted' = [kind |-> "iter", items |-> <<>>]
    /\ loaded' = FALSE
    /\ error' = ""
    /\ last' = NoQuery
    /\ UNCHANGED <<scanned, leaked>>

\* if load: self.load() else: self.unload()
InitLoad ==
    /\ pc = "memo_ready"
    /\ IF args.load THEN DoLoad ELSE DoUnload
    /\ pc' = IF error' = "" THEN "open" ELSE "failed"
    /\ UNCHANGED <<disk, args, py3, header, encoding, fields, memofilename,
                   memofile, gens, date>>

Load ==
    /\ pc = "open"
    /\ DoLoad
    /\ UNCHANGED <<disk, args, py3, pc, header, encoding, fields, memofilename,
                   memofile, gens, date>>

Unload ==
    /\ pc = "open"
    /\ DoUnload
    /\ UNCHANGED <<disk, args, py3, pc, header, encoding, fields, memofilename,
                   memofile, gens, date>>

(***************************************************************************)
(* Table.__iter__, Table.__len__ and the same on self.deleted              *)
(***************************************************************************)
\* A query that goes to the file whatever self.records is.
\* What a traversal run to its end (r, having handed the records at dec to
\* _read_record) answers to an iteration (read TRUE) or a length query.
QueryOfFile(read, del, r, dec) ==
    [op |-> IF read THEN "iter" ELSE "len", deleted |-> del, opens |-> 1,
     decoded |-> dec, items |-> r.items, count |-> Len(r.items),
     error |-> r.error, open |-> r.open]

\* What a materialized list answers.
QueryOfList(read, del, seq) ==
    [op |-> IF read THEN "iter" ELSE "len", deleted |-> del, opens |-> 0,
     decoded |-> <<>>, items |-> IF read THEN seq.items ELSE <<>>,
     count |-> Len(seq.items), error |-> "", open |-> FALSE]

QueryResultFromFile(read, del) ==
    QueryOfFile(read, del, RunAll(FirstPos, del, read, <<>>),
                RunDecoded(FirstPos, del, read))

\* A for loop over self.records or self.deleted run to its end (read TRUE)
\* or len() of it (read FALSE): a materialized list answers by itself, a
\* RecordIterator by a traversal of the file.
QueryResult(read, del) ==
    IF (IF del THEN deleted ELSE records).kind = "list"
    THEN QueryOfList(read, del, IF del THEN deleted ELSE records)
    ELSE QueryOfFile(read, del, RunAll(FirstPos, del, read, <<>>),
                     RunDecoded(FirstPos, del, read))

\* The query q is made: what it did is noted.
Answer(q) ==
    /\ last' = [op |-> q.op, deleted |-> q.deleted, opens |-> q.opens,
                decoded |-> q.decoded, items |-> q.items,
                count |-> q.count, error |-> q.error]
    /\ leaked' = (leaked \/ q.open)
    /\ scanned' = (scanned \/ q.opens > 0)

DoQuery(read, del) == Answer(QueryResult(read, del))

\* for record in table (del FALSE), for record in table.deleted (del TRUE)
IterRecords(del) ==
    /\ pc = "open"
    /\ DoQuery(TRUE, del)
    /\ UNCHANGED <<disk, args, py3, pc, error, header, encoding, fields,
                   memofilename, memofile, records, deleted, loaded, gens, date>>

\* len(table) (del FALSE), len(table.deleted) (del TRUE)
LenRecords(del) ==
    /\ pc = "open"
    /\ DoQuery(FALSE, del)
    /\ UNCHANGED <<disk, args, py3, pc, error, header, encoding, fields,
                   memofilename, memofile, records, deleted, loaded, gens, date>>

(***************************************************************************)
(* The generators of _iter_records, as a caller drives them.               *)
(***************************************************************************)
\* self._iter_records(deleted=del, read=read): the generator object; its
\* body has not run yet.
StartIter(g) ==
    /\ pc = "open"
    /\ gens[g].st = "idle"
    /\ \E del \in BOOLEAN, read \in BOOLEAN :
         gens' = [gens EXCEPT ![g] = [IdleGen EXCEPT !.st = "new",
                                        !.deleted = del, !.read = read]]
    /\ UNCHANGED <<disk, args, py3, pc, error, header, encoding, fields,
                   memofilename, memofile, records, deleted, loaded, scanned,
                   date, leaked, last>>

\* next(generator) with one file handle kept on the table and shared by its
\* generators: the body reads on from where another suspended generator has
\* left the handle.
NextRecordShared(g) ==
    /\ gens[g].st \in {"new", "suspended"}
    /\ LET gen == gens[g]
           others == {h \in DOMAIN gens : h # g /\ gens[h].st = "suspended"}
           shared == IF others = {} THEN gen.pos
                     ELSE gens[CHOOSE h \in others : TRUE].pos
           s == Scan(IF gen.st = "new" THEN FirstPos ELSE shared,
                     gen.deleted, gen.read)
       IN  gens' = [gens EXCEPT ![g] =
                [gen EXCEPT !.st = IF s.st = "yield" THEN "suspended" ELSE s.st,
                            !.pos = s.pos,
                            !.open = HandleOpen(s.st),
                            !.out = IF s.st = "yield" THEN Append(gen.out, s.item)
                                    ELSE gen.out,
                            !.slots = IF s.st = "yield" THEN Append(gen.slots, s.slot)
                                      ELSE gen.slots,
                            !.decoded = gen.decoded \o s.decoded,
                            !.error = s.error]]
    /\ scanned' = TRUE
    /\ UNCHANGED <<disk, args, py3, pc, error, header, encoding, fields,
                   memofilename, memofile, records, deleted, loaded,
                   date, leaked, last>>

\* next(generator) with a body that does not return at the end of the file:
\* it reads the end of the file again and again, and the call never comes
\* back.
NextRecordNoReturn(g) ==
    /\ gens[g].st \in {"new", "suspended"}
    /\ LET gen == gens[g]
           s == Scan(IF gen.st = "new" THEN FirstPos ELSE gen.pos,
                     gen.deleted, gen.read)
       IN  gens' = IF s.st = "done" THEN gens
                   ELSE [gens EXCEPT ![g] =
                [gen EXCEPT !.st = IF s.st = "yield" THEN "suspended" ELSE s.st,
                            !.pos = s.pos,
                            !.open = HandleOpen(s.st),
                            !.out = IF s.st = "yield" THEN Append(gen.out, s.item)
                                    ELSE gen.out,
                            !.slots = IF s.st = "yield" THEN Append(gen.slots, s.slot)
                                      ELSE gen.slots,
                            !.decoded = gen.decoded \o s.decoded,
                            !.error = s.error]]
    /\ scanned' = TRUE
    /\ UNCHANGED <<disk, args, py3, pc, error, header, encoding, fields,
                   memofilename, memofile, records, deleted, loaded,
                   date, leaked, last>>

\* next(generator): the body runs from where it stands to its next yield,
\* its return or its raise.
NextRecord(g) ==
    /\ gens[g].st \in {"new", "suspended"}
    /\ LET gen == gens[g]
           s == Scan(IF gen.st = "new" THEN FirstPos ELSE gen.pos,
                     gen.deleted, gen.read)
       IN  gens' = [gens EXCEPT ![g] =
                [gen EXCEPT !.st = IF s.st = "yield" THEN "suspended" ELSE s.st,
                            !.pos = s.pos,
                            !.open = HandleOpen(s.st),
                            !.out = IF s.st = "yield" THEN Append(gen.out, s.item)
                                    ELSE gen.out,
                            !.slots = IF s.st = "yield" THEN Append(gen.slots, s.slot)
                                      ELSE gen.slots,
                            !.decoded = gen.decoded \o s.decoded,
                            !.error = s.error]]
    /\ scanned' = TRUE
    /\ UNCHANGED <<disk, args, py3, pc, error, header, encoding, fields,
                   memofilename, memofile, records, deleted, loaded,
                   date, leaked, last>>

\* next(generator) on a generator that has returned or raised: StopIteration,
\* the body does not run.
NextAfterEnd(g) ==
    /\ gens[g].st \in {"done", "error"}
    /\ UNCHANGED vars

\* The caller drops the generator.
DropIter(g) ==
    /\ gens[g].st # "idle"
    /\ gens' = [gens EXCEPT ![g] = IdleGen]
    /\ UNCHANGED <<disk, args, py3, pc, error, header, encoding, fields,
                   memofilename, memofile, records, deleted, loaded, scanned,
                   date, leaked, last>>

Next ==
    \/ InitReadHeaders
    \/ InitCheckHeaders
    \/ InitDate
    \/ InitMemo
    \/ InitLoad
    \/ Load
    \/ Unload
    \/ \E g \in DOMAIN gens : StartIter(g)
    \/ \E g \in DOMAIN gens : NextRecord(g)
    \/ \E g \in DOMAIN gens : NextAfterEnd(g)
    \/ \E g \in DOMAIN gens : DropIter(g)

Spec == Init /\ [][Next]_vars

\* Two generators, advanced in any order, of a table opened in decoded mode;
\* no load() or unload() in between.
InitPair == ScanInit(PairSchemas, {FALSE}, {1, 2})

NextPair ==
    \/ InitReadHeaders
    \/ InitCheckHeaders
    \/ InitDate
    \/ InitMemo
    \/ InitLoad
    \/ \E g \in DOMAIN gens : StartIter(g)
    \/ \E g \in DOMAIN gens : NextRecord(g)
    \/ \E g \in DOMAIN gens : NextAfterEnd(g)
    \/ \E g \in DOMAIN gens : DropIter(g)

SpecPair == InitPair /\ [][NextPair]_vars

\* One generator driven to exhaustion: the caller creates it and calls
\* next() until the generator returns or raises (for record in ...: a for
\* loop, list() or len() goes on calling next() as long as it yields).
DriveGens == {1}

\* The schemas of the files it is checked on: a field that takes a byte, a
\* field of length 0.  A traversal raises on a marker that is no marker.
DriveSchemas == PairSchemas

InitDrive == ScanInit(DriveSchemas, {FALSE}, DriveGens)

NextDrive ==
    \/ InitReadHeaders
    \/ InitCheckHeaders
    \/ InitDate
    \/ InitMemo
    \/ InitLoad
    \/ \E g \in DOMAIN gens : StartIter(g)
    \/ \E g \in DOMAIN gens : NextRecord(g)

SpecDrive ==
    /\ InitDrive
    /\ [][NextDrive]_vars
    /\ \A g \in DriveGens : WF_vars(NextRecord(g))

\* The table as a sequence: load(), unload(), iterations and length queries
\* in any order; the caller holds no generator.
InitTable == ScanInit(ScanSchemas, BOOLEAN, {})

NextTable ==
    \/ InitReadHeaders
    \/ InitCheckHeaders
    \/ InitDate
    \/ InitMemo
    \/ InitLoad
    \/ Load
    \/ Unload
    \/ \E del \in BOOLEAN : IterRecords(del)
    \/ \E del \in BOOLEAN : LenRecords(del)

SpecTable == InitTable /\ [][NextTable]_vars

\* The constructor on files with any year of last update and months and
\* days in and out of the calendar.
InitDated ==
    \E y \in 0..MaxYear, m \in {0, 1, 2, 12, 13}, d \in {0, 1, 28, 29, 30, 31, 32} :
        Fresh([dbf |-> MakeDbfWith(<<[type |-> "C", length |-> 1]>>, "CR",
                                   <<Space, Digit1>>, 3, <<y, m, d>>, 2),
               fpt |-> "absent"],
              [raw |-> FALSE, load |-> FALSE, encoding |-> ""], TRUE, {})

NextDated ==
    \/ InitReadHeaders
    \/ InitCheckHeaders
    \/ InitDate
    \/ InitMemo
    \/ InitLoad

SpecDated == InitDated /\ [][NextDated]_vars

\* One generator on tables whose header declares the record length the
\* descriptors add up to, or one byte more (records padded by a byte).
InitRecLen ==
    \E fs \in PairSchemas, rec \in RecAreas(MaxRecArea), pad \in {0, 1} :
        Fresh([dbf |-> MakeDbfWith(fs, "CR", rec, 3, <<99, 12, 31>>,
                                   1 + SumLen(fs) + pad),
               fpt |-> "absent"],
              [raw |-> FALSE, load |-> FALSE, encoding |-> ""], TRUE, {1})

NextRecLen ==
    \/ InitReadHeaders
    \/ InitCheckHeaders
    \/ InitDate
    \/ InitMemo
    \/ InitLoad
    \/ \E g \in DOMAIN gens : StartIter(g)
    \/ \E g \in DOMAIN gens : NextRecord(g)
    \/ \E g \in DOMAIN gens : NextAfterEnd(g)
    \/ \E g \in DOMAIN gens : DropIter(g)

SpecRecLen == InitRecLen /\ [][NextRecLen]_vars

\* The constructor alone, on files with any schema of up to MaxFields
\* descriptors, ended by 0x0D, by 0x0A or by the end of the file, under both
\* interpreters, with and without a memo file.
OpenRecArea == <<Space, Digit1, Star, Digit1>>

InitOpen ==
    \E fs \in Schemas(AllFieldChoices, MaxFields), term \in {"CR", "LF", "EOF"},
       raw \in BOOLEAN, load \in BOOLEAN, p3 \in BOOLEAN,
       mf \in {"absent", "memo"} :
        Fresh([dbf |-> MakeDbf(fs, term, IF term = "EOF" THEN <<>> ELSE OpenRecArea, 0),
               fpt |-> mf],
              [raw |-> raw, load |-> load, encoding |-> ""], p3, {1})

NextOpen ==
    \/ InitReadHeaders
    \/ InitCheckHeaders
    \/ InitDate
    \/ InitMemo
    \/ InitLoad

SpecOpen == InitOpen /\ [][NextOpen]_vars

(***************************************************************************)
(* The table file as the format lays it out, read off the bytes by offset: *)
(* what the properties below compare the program's results with.           *)
(***************************************************************************)
\* Offset of the record area: the header's header length, bytes 8 and 9.
RecStart == disk.dbf[9] + 256 * disk.dbf[10]

\* The field descriptors that lie between the header and the record area.
NumDesc == (RecStart - HeaderSize - 1) \div FieldSize

DescType(i) == Chr(disk.dbf[HeaderSize + FieldSize * (i - 1) + 12])

DescLen(i) == disk.dbf[HeaderSize + FieldSize * (i - 1) + 17]

DescName(i) == <<disk.dbf[HeaderSize + FieldSize * (i - 1) + 1]>>

RECURSIVE DescLenSum(_)
DescLenSum(n) == IF n = 0 THEN 0 ELSE DescLen(n) + DescLenSum(n - 1)

\* Bytes of one record: the marker and the fields.
RecSize == 1 + DescLenSum(NumDesc)

\* Offset of the marker of the record with index i (from 0).
SlotPos(i) == RecStart + i * RecSize

\* The marker byte of record i, -1 past the end of the file.
MarkerAt(i) ==
    IF SlotPos(i) >= Len(disk.dbf) THEN -1 ELSE disk.dbf[SlotPos(i) + 1]

\* The records of the record area: those before the first marker that is
\* neither a space nor an asterisk.
RECURSIVE SlotsFrom(_)
SlotsFrom(i) == IF MarkerAt(i) \in {Space, Star} THEN SlotsFrom(i + 1) ELSE i

NumSlots == SlotsFrom(0)

ClassMarker(del) == IF del THEN Star ELSE Space

\* The indexes of the active (del FALSE) or deleted (del TRUE) records.
ClassSlots(del) == {i \in 0..(NumSlots - 1) : MarkerAt(i) = ClassMarker(del)}

\* The same, in file order.
RECURSIVE ClassSlotSeq(_, _)
ClassSlotSeq(del, n) ==
    IF n = 0 THEN <<>>
    ELSE IF MarkerAt(n - 1) = ClassMarker(del)
         THEN Append(ClassSlotSeq(del, n - 1), n - 1)
         ELSE ClassSlotSeq(del, n - 1)

\* The record area ends with the sentinel or with the file, not with a byte
\* that is no marker.
EndsClean == MarkerAt(NumSlots) \in {-1, EOFMark}

\* The file holds every byte of its last record.
LastRecordWhole == SlotPos(NumSlots) <= Len(disk.dbf)

\* A memo pointer of the record area would not resolve.
MemoFails == ~args.raw /\ disk.fpt = "empty"

\* A valid table file: whole records up to the sentinel or the end of the
\* file, and memo pointers that resolve.
ValidTable == EndsClean /\ LastRecordWhole /\ ~MemoFails

IsPrefix(s, t) == Len(s) <= Len(t) /\ s = SubSeq(t, 1, Len(s))

(***************************************************************************)
(* C1.  On a valid table the count of a skip-only traversal of the active  *)
(* records (len of the unloaded stream), the count of a decode traversal   *)
(* (a generator with read=True, and the list load() builds) and the number *)
(* of active marker bytes of the record area are the same number.          *)
(***************************************************************************)
C1_CountsAgree ==
    ValidTable =>
        /\ \A g \in DOMAIN gens :
             gens[g].st = "done" /\ ~gens[g].deleted
                 => Len(gens[g].out) = Cardinality(ClassSlots(FALSE))
        /\ loaded => Len(records.items) = Cardinality(ClassSlots(FALSE))

\* A finished skip-only traversal and a loaded list of two active records
\* each, on a valid table that also holds a deleted record.
C1_Witness ==
    /\ ValidTable
    /\ loaded
    /\ Len(records.items) >= 2
    /\ ClassSlots(TRUE) # {}
    /\ \E g \in DOMAIN gens :
         gens[g].st = "done" /\ ~gens[g].deleted /\ ~gens[g].read
         /\ Len(gens[g].out) >= 2

(***************************************************************************)
(* C2.  For each class (active, deleted), what a decode generator has      *)
(* yielded in the unloaded way is, element by element, the start of the    *)
(* list load() holds for that class, and the whole list once the generator *)
(* has returned; no such generator raises on a table that load() could     *)
(* read.  The states range over every order of load(), unload() and the    *)
(* generator's steps.                                                      *)
(***************************************************************************)
ListOf(del) == IF del THEN deleted.items ELSE records.items

C2_LazyEqualsLoaded ==
    loaded =>
        \A g \in DOMAIN gens :
            gens[g].read /\ gens[g].st \in {"suspended", "done", "error"}
                => /\ gens[g].st # "error"
                   /\ IsPrefix(gens[g].out, ListOf(gens[g].deleted))
                   /\ gens[g].st = "done" => gens[g].out = ListOf(gens[g].deleted)

\* A finished lazy traversal of two deleted records beside the loaded lists,
\* the table holding an active record too.
C2_Witness ==
    /\ loaded
    /\ Len(records.items) >= 1
    /\ \E g \in DOMAIN gens :
         /\ gens[g].st = "done" /\ gens[g].read /\ gens[g].deleted
         /\ Len(gens[g].out) >= 2

(***************************************************************************)
(* C3.  An active-only and a deleted-only traversal of the same table      *)
(* yield no record slot in common, each yields only records whose marker   *)
(* is its class's, and once both have returned their counts add up to the  *)
(* number of records of the record area.                                   *)
(***************************************************************************)
SlotSet(gen) == {gen.slots[k] : k \in 1..Len(gen.slots)}

C3_ActiveDeletedPartition ==
    \A g1 \in DOMAIN gens, g2 \in DOMAIN gens :
        /\ gens[g1].st # "idle" /\ ~gens[g1].deleted
        /\ gens[g2].st # "idle" /\ gens[g2].deleted
        => /\ SlotSet(gens[g1]) \cap SlotSet(gens[g2]) = {}
           /\ SlotSet(gens[g1]) \subseteq {SlotPos(i) : i \in ClassSlots(FALSE)}
           /\ SlotSet(gens[g2]) \subseteq {SlotPos(i) : i \in ClassSlots(TRUE)}
           /\ Len(gens[g1].out) = Cardinality(SlotSet(gens[g1]))
           /\ Len(gens[g2].out) = Cardinality(SlotSet(gens[g2]))
           /\ gens[g1].st = "done" /\ gens[g2].st = "done"
                => Len(gens[g1].out) + Len(gens[g2].out) = NumSlots

\* Both traversals have returned, each with a record, three records in all.
C3_Witness ==
    \E g1 \in DOMAIN gens, g2 \in DOMAIN gens :
        /\ gens[g1].st = "done" /\ ~gens[g1].deleted /\ Len(gens[g1].out) >= 1
        /\ gens[g2].st = "done" /\ gens[g2].deleted /\ Len(gens[g2].out) >= 1
        /\ NumSlots >= 3

(***************************************************************************)
(* C4.  A byte at a record boundary that is neither a space, an asterisk,  *)
(* 0x1A nor the end of the file makes the traversal that reads it raise    *)
(* the invalid-record-separator error there: the traversal is over, its    *)
(* handle is closed one byte past the boundary and is never read further,  *)
(* and it has yielded the records of its class before the boundary and no  *)
(* other.  load() on such a table raises the same error and loads nothing. *)
(***************************************************************************)
BadMarker == MarkerAt(NumSlots) \notin {-1, EOFMark}

BadPos == SlotPos(NumSlots)

C4_BadSeparatorAborts ==
    /\ \A g \in DOMAIN gens :
         LET gen == gens[g]
         IN  /\ gen.error = "invalid_separator"
                  => /\ gen.st = "error"
                     /\ BadMarker
                     /\ gen.pos = BadPos + 1
                     /\ ~gen.open
                     /\ Len(gen.out) = Cardinality(ClassSlots(gen.deleted))
             /\ BadMarker => gen.pos <= BadPos + 1
             /\ BadMarker /\ gen.pos = BadPos + 1
                  => gen.st = "error" /\ gen.error = "invalid_separator"
    /\ BadMarker => ~loaded
    /\ error = "invalid_separator" => BadMarker

\* A traversal that raised on a bad separator after yielding a record.
C4_Witness ==
    \E g \in DOMAIN gens :
        /\ gens[g].st = "error"
        /\ gens[g].error = "invalid_separator"
        /\ Len(gens[g].out) >= 1

(***************************************************************************)
(* The field-descriptor section as the format lays it out.                 *)
(***************************************************************************)
\* The byte that follows the last descriptor, -1 when the file ends there.
TermByte ==
    IF Len(disk.dbf) > HeaderSize + FieldSize * NumDesc
    THEN disk.dbf[HeaderSize + FieldSize * NumDesc + 1]
    ELSE -1

\* A descriptor the validation is to reject.
BadDesc(i) ==
    \/ DescType(i) = "0" /\ DescLen(i) # 1
    \/ DescType(i) = "I" /\ DescLen(i) # 4
    \/ DescType(i) = "L" /\ DescLen(i) # 1
    \/ DescType(i) \notin SupportedTypes

AnyBadDesc == \E i \in 1..NumDesc : BadDesc(i)

FirstBadDesc == CHOOSE i \in 1..NumDesc : BadDesc(i) /\ \A j \in 1..(i - 1) : ~BadDesc(j)

\* The schema error of a descriptor.
DescError(i) ==
    IF DescType(i) = "0" /\ DescLen(i) # 1 THEN "type_0_length"
    ELSE IF DescType(i) = "I" /\ DescLen(i) # 4 THEN "type_I_length"
    ELSE IF DescType(i) = "L" /\ DescLen(i) # 1 THEN "type_L_length"
    ELSE "unknown_type"

AnyMemoDesc == \E i \in 1..NumDesc : DescType(i) = "M"

(***************************************************************************)
(* C5.  A file with no field descriptor (0x0D right after the 32-byte      *)
(* header, or the end of the file there) makes the constructor fail with   *)
(* the empty-schema error, no traversal having opened the record area.     *)
(***************************************************************************)
C5_EmptySchemaError ==
    NumDesc = 0 /\ TermByte \in {CR, -1} /\ pc # "new"
        => pc = "failed" /\ error = "no_fields" /\ ~scanned

(***************************************************************************)
(* C6, as claimed, on files whose descriptor section ends with 0x0D: a     *)
(* descriptor of type '0' and length other than 1, of type 'I' and length  *)
(* other than 4, of type 'L' and length other than 1, or of an unsupported *)
(* type makes the constructor fail with a schema error.                    *)
(***************************************************************************)
C6_SchemaErrorAlways ==
    AnyBadDesc /\ TermByte = CR /\ pc \notin {"new", "headers_read"}
        => pc = "failed" /\ error \in CheckErrors

\* _read_headers raises: the descriptor section does not end where this
\* interpreter sees its end, or a memo field has no memo file.
SectionUnread == IF py3 THEN TermByte # CR ELSE TermByte \notin {CR, LF, -1}

(***************************************************************************)
(* C6, amended.  With such a descriptor the constructor never gets past    *)
(* the validation and no record is read.  It fails with the schema error   *)
(* of the first such descriptor whenever _read_headers returned; when      *)
(* _read_headers raised (a descriptor section it cannot read to its end, a *)
(* memo field without a memo file) that error is the constructor's.        *)
(***************************************************************************)
C6_Rejected ==
    AnyBadDesc =>
        /\ pc \in {"new", "headers_read", "failed"}
        /\ ~scanned
        /\ pc = "failed" =>
             error = IF SectionUnread THEN "struct.error"
                     ELSE IF AnyMemoDesc /\ disk.fpt = "absent" THEN "missing_memo"
                     ELSE DescError(FirstBadDesc)

\* The constructor has failed on the length of an integer field that follows
\* a field that passes.
C6_Witness ==
    /\ pc = "failed"
    /\ error = "type_I_length"
    /\ NumDesc = 2
    /\ ~BadDesc(1)
    /\ DescType(2) = "I"

(***************************************************************************)
(* C7.  On a file whose descriptor section ends with 0x0D or with the end  *)
(* of the file, a memo field without a memo file makes the constructor     *)
(* fail with the missing-file error, in raw mode too.                      *)
(***************************************************************************)
C7_MissingMemoFirst ==
    AnyMemoDesc /\ disk.fpt = "absent" /\ TermByte \in {CR, -1} /\ pc # "new"
        => pc = "failed" /\ error = "missing_memo"

(***************************************************************************)
(* The bytes of the file that lie in the slot of field k of the record      *)
(* whose marker is at offset slot.                                         *)
(***************************************************************************)
SlotBytes(slot, k) ==
    SubSeq(disk.dbf, slot + 1 + DescLenSum(k - 1) + 1,
           Min(slot + 1 + DescLenSum(k), Len(disk.dbf)))

(***************************************************************************)
(* C8.  In raw mode every field of every record a decode traversal yields, *)
(* memo fields included, holds the bytes of its slot in the file, as many  *)
(* as the field's declared length.                                         *)
(***************************************************************************)
C8_RawSlotBytes ==
    args.raw =>
        \A g \in DOMAIN gens :
            gens[g].read =>
                \A j \in 1..Len(gens[g].out), k \in 1..NumDesc :
                    /\ Len(gens[g].out[j]) = NumDesc
                    /\ gens[g].out[j][k].value
                         = [kind |-> "bytes", data |-> SlotBytes(gens[g].slots[j], k),
                            tag |-> ""]
                    /\ Len(gens[g].out[j][k].value.data) = DescLen(k)

(***************************************************************************)
(* C9, as claimed for the binary case: a memo field whose pointer resolves *)
(* to a binary payload yields the payload's bytes, in raw mode as in       *)
(* decoded mode.                                                           *)
(***************************************************************************)
C9_BinaryInAnyMode ==
    disk.fpt = "picture" =>
        \A g \in DOMAIN gens :
            gens[g].read =>
                \A j \in 1..Len(gens[g].out), k \in 1..NumDesc :
                    LET data == SlotBytes(gens[g].slots[j], k)
                        field == [type |-> "M", length |-> DescLen(k)]
                    IN  DescType(k) = "M" /\ parse(field, data).kind = "pointer"
                            => gens[g].out[j][k].value
                                 = [kind |-> "bytes",
                                    data |-> MemoLookup("picture", parse(field, data)).data,
                                    tag |-> ""]

\* What the memo field of a record is to hold, from the bytes read from its
\* slot: decoded mode.
MemoValue(data, len) ==
    LET value == parse([type |-> "M", length |-> len], data)
        memo == MemoLookup(disk.fpt, value)
    IN  IF value.kind = "none"
        THEN [kind |-> "text", data |-> <<>>, tag |-> ""]
        ELSE IF memo.type = "memo"
             THEN [kind |-> "text", data |-> memo.data, tag |-> encoding]
             ELSE [kind |-> "bytes", data |-> memo.data, tag |-> ""]

(***************************************************************************)
(* C9, amended.  In decoded mode a memo field yields the empty text when   *)
(* the decoder returns None for the bytes read from its slot; otherwise    *)
(* the decoded value is looked up in the memo file, and a text payload is  *)
(* yielded decoded with the table's resolved encoding, a binary payload as *)
(* its bytes.  In raw mode the memo file is not consulted: the field       *)
(* yields the bytes read from its slot.                                    *)
(***************************************************************************)
C9_MemoRendering ==
    \A g \in DOMAIN gens :
        gens[g].read =>
            \A j \in 1..Len(gens[g].out), k \in 1..NumDesc :
                LET data == SlotBytes(gens[g].slots[j], k)
                IN  DescType(k) = "M"
                        => gens[g].out[j][k].value
                             = IF args.raw
                               THEN [kind |-> "bytes", data |-> data, tag |-> ""]
                               ELSE MemoValue(data, DescLen(k))

\* A decoded-mode traversal has yielded a record whose memo is a text in the
\* table's encoding after a record whose memo field is blank.
C9_Witness ==
    /\ ~args.raw
    /\ disk.fpt = "memo"
    /\ encoding = "cp1252"
    /\ \E g \in DOMAIN gens, k \in 1..NumDesc :
         /\ DescType(k) = "M"
         /\ gens[g].read
         /\ Len(gens[g].out) >= 2
         /\ gens[g].out[1][k].value = [kind |-> "text", data |-> <<>>, tag |-> ""]
         /\ gens[g].out[2][k].value.kind = "text"
         /\ gens[g].out[2][k].value.tag = "cp1252"

\* The position of a traversal's handle after its n-th yield, run alone.
RECURSIVE SoloAfter(_, _, _, _)
SoloAfter(pos, del, read, n) ==
    IF n = 0 THEN pos ELSE SoloAfter(Scan(pos, del, read).pos, del, read, n - 1)

(***************************************************************************)
(* C10.  Of several traversals of one table advanced in any order, each    *)
(* yields what it yields run alone from the header-length offset: its      *)
(* records so far are the first records of the solo run, its handle stands *)
(* where the solo run's stands after as many records, and it ends as the   *)
(* solo run ends, with the same records and the same error, if any.        *)
(***************************************************************************)
C10_Independent ==
    \A g \in DOMAIN gens :
        gens[g].st \in {"suspended", "done", "error"} =>
            LET gen == gens[g]
                solo == RunAll(FirstPos, gen.deleted, gen.read, <<>>)
                at == SoloAfter(FirstPos, gen.deleted, gen.read, Len(gen.out))
            IN  /\ IsPrefix(gen.out, solo.items)
                /\ gen.st = "suspended" => gen.pos = at
                /\ gen.st \in {"done", "error"}
                     => /\ gen.out = solo.items
                        /\ gen.error = solo.error
                        /\ (gen.st = "error") = (solo.error # "")
                        /\ gen.pos = Scan(at, gen.deleted, gen.read).pos

\* Two traversals of the same class stand at different records: one has
\* yielded two records, the other one and is suspended there.
C10_Witness ==
    \E g1 \in DOMAIN gens, g2 \in DOMAIN gens :
        /\ g1 # g2
        /\ gens[g1].deleted = gens[g2].deleted
        /\ gens[g1].read /\ gens[g2].read
        /\ Len(gens[g1].out) = 2
        /\ Len(gens[g2].out) = 1
        /\ gens[g2].st = "suspended"
        /\ gens[g1].pos # gens[g2].pos

(***************************************************************************)
(* C11.  A traversal holds its file handle only while it lasts: a          *)
(* generator's handle is open exactly while the generator is suspended at  *)
(* a yield, so it is closed once the generator has returned at the         *)
(* sentinel or the end of the file, has raised, or has been dropped by its *)
(* caller; and the traversals load() runs to their end leave no handle     *)
(* open, whether they return or raise.                                     *)
(***************************************************************************)
C11_HandlesReleased ==
    /\ [](/\ ~leaked
          /\ \A g \in DOMAIN gens : gens[g].open <=> gens[g].st = "suspended")
    /\ [][\A g \in DOMAIN gens :
            gens[g].open /\ gens'[g].st # "suspended" => ~gens'[g].open]_vars

\* A generator has raised after a yield and load() has raised as well.
C11_Witness ==
    /\ gens[1].st = "error"
    /\ Len(gens[1].out) >= 1
    /\ ~gens[1].open
    /\ error = "invalid_separator"
    /\ ~leaked

\* The record a decode traversal is to build from the record whose marker
\* is at offset slot.
ExpectedItem(slot) ==
    [k \in 1..NumDesc |->
        [name |-> fields[k].name,
         value |-> FieldResult(fields[k], SlotBytes(slot, k)).value]]

\* The records of a class as decode traversals are to build them, in file
\* order.
ExpectedItems(del) ==
    LET slots == ClassSlotSeq(del, NumSlots)
    IN  [j \in 1..Len(slots) |-> ExpectedItem(SlotPos(slots[j]))]

(***************************************************************************)
(* C12.  Once load() has completed, self.records and self.deleted are      *)
(* lists, each what one decode traversal of its class yields, and until    *)
(* the next load() or unload() every iteration over the table or over      *)
(* either list and every length query opens no file (so reads none) and    *)
(* answers from the list.                                                  *)
(***************************************************************************)
C12_LoadedNoFileAccess ==
    loaded =>
        /\ records = [kind |-> "list", items |-> RunAll(FirstPos, FALSE, TRUE, <<>>).items]
        /\ deleted = [kind |-> "list", items |-> RunAll(FirstPos, TRUE, TRUE, <<>>).items]
        /\ last.op # "none" =>
             /\ last.opens = 0
             /\ last.decoded = <<>>
             /\ last.error = ""
             /\ last.count = Len(ListOf(last.deleted))
             /\ last.op = "iter" => last.items = ListOf(last.deleted)

\* An iteration over the loaded table has yielded two records.
C12_Witness ==
    /\ loaded
    /\ last.op = "iter"
    /\ ~last.deleted
    /\ Len(last.items) >= 2
    /\ Len(deleted.items) >= 1

(***************************************************************************)
(* C13.  After any load() and unload() calls, iterating the table yields   *)
(* its active records, no deleted one, in file order; len(table) is the    *)
(* number of active records; and while the table is unloaded a length      *)
(* query runs a skip traversal of its own.                                 *)
(***************************************************************************)
C13_ActiveIterationAndLength ==
    pc = "open" /\ last.op # "none" /\ ~last.deleted =>
        /\ last.op = "iter" =>
             /\ IsPrefix(last.items, ExpectedItems(FALSE))
             /\ last.error = "" => last.items = ExpectedItems(FALSE)
        /\ last.op = "len" /\ last.error = "" =>
             last.count = Cardinality(ClassSlots(FALSE))
        /\ last.op = "len" /\ ~loaded =>
             last.opens = 1 /\ last.decoded = <<>>

(***************************************************************************)
(* C19.  After construction, whatever load() and unload() calls have been  *)
(* made, load() calls that raised included: loaded is true exactly when    *)
(* self.records and self.deleted are both lists, and false exactly when    *)
(* both are lazy streams.                                                  *)
(***************************************************************************)
C19_LoadedFlag ==
    pc = "open" =>
        /\ loaded <=> (records.kind = "list" /\ deleted.kind = "list")
        /\ ~loaded <=> (records.kind = "iter" /\ deleted.kind = "iter")

(***************************************************************************)
(* C14.  expand_year maps a two-digit year y to 2000 + y when y < 80 and   *)
(* to 1900 + y otherwise, for every y of 0..99, and the table's date is    *)
(* that year with the month and the day of the header.                     *)
(***************************************************************************)
C14_ExpandedDate ==
    /\ \A y \in 0..MaxYear :
         expand_year(y) = IF y < 80 THEN 2000 + y ELSE 1900 + y
    /\ pc \in {"dated", "memo_ready", "open"} =>
         date = [year |-> IF disk.dbf[2] < 80 THEN 2000 + disk.dbf[2]
                          ELSE 1900 + disk.dbf[2],
                 month |-> disk.dbf[3],
                 day |-> disk.dbf[4]]

\* A table last updated on 29 February of the year 80 is open, dated 1980.
C14_Witness ==
    /\ pc = "open"
    /\ disk.dbf[2] = 80
    /\ date = [year |-> 1980, month |-> 2, day |-> 29]

\* The record length the header declares.
DeclRecLen == disk.dbf[11] + 256 * disk.dbf[12]

(***************************************************************************)
(* C15.  The marker of the record with index i (active and deleted records *)
(* counted alike) is read at header length + i * the header's record       *)
(* length, in decode and in skip traversals, and a traversal moves         *)
(* forward only.                                                           *)
(***************************************************************************)
C15_MarkerPositions ==
    \A g \in DOMAIN gens :
        LET gen == gens[g]
            idx == ClassSlotSeq(gen.deleted, NumSlots)
        IN  /\ Len(gen.slots) <= Len(idx)
            /\ \A j \in 1..Len(gen.slots) :
                 gen.slots[j] = RecStart + idx[j] * DeclRecLen
            /\ \A j \in 1..(Len(gen.slots) - 1) : gen.slots[j] < gen.slots[j + 1]
            /\ Len(gen.slots) >= 1 => gen.slots[Len(gen.slots)] < gen.pos

(***************************************************************************)
(* C16.  _read_headers reads one byte before each descriptor.  When that   *)
(* byte is 0x0D, or the file has ended, the section ends with the          *)
(* descriptors read so far; any other byte is the first byte of the next   *)
(* descriptor, of which 31 more bytes are read (the files here hold fewer  *)
(* than 31 bytes after their descriptors, so that read comes short and     *)
(* the unpacking raises).                                                  *)
(***************************************************************************)
C16_DescriptorSection ==
    pc # "new" =>
        /\ TermByte \in {CR, -1} =>
             /\ error # "struct.error"
             /\ Len(fields) = NumDesc
             /\ \A i \in 1..NumDesc :
                  fields[i].type = DescType(i) /\ fields[i].length = DescLen(i)
        /\ TermByte \notin {CR, -1} => pc = "failed" /\ error = "struct.error"

(***************************************************************************)
(* C17.  A skip traversal hands no record to _read_record, so that it      *)
(* calls neither the field parser nor the memo file and builds no record.  *)
(* A decode traversal hands to _read_record the records of the class asked *)
(* for and no other, in file order: a record of the other class is passed  *)
(* by a seek over the sum of the field lengths, which is where the marker  *)
(* of the next record decoded is then read.                                *)
(***************************************************************************)
C17_ExcludedNeverDecoded ==
    \A g \in DOMAIN gens :
        LET gen == gens[g]
            idx == ClassSlotSeq(gen.deleted, NumSlots)
        IN  /\ ~gen.read => gen.decoded = <<>>
            /\ gen.read =>
                 /\ Len(gen.decoded) <= Len(idx)
                 /\ \A j \in 1..Len(gen.decoded) :
                      /\ gen.decoded[j] = RecStart + idx[j] * (1 + DescLenSum(NumDesc))
                      /\ disk.dbf[gen.decoded[j] + 1] = ClassMarker(gen.deleted)
                 /\ IsPrefix(gen.slots, gen.decoded)
                 /\ Len(gen.decoded) <= Len(gen.slots) + 1

\* A decode traversal of the active records has run to the end of a file
\* whose first record is deleted and whose fields take bytes: it has decoded
\* a record after passing over the deleted one.
C17_Witness ==
    \E g \in DOMAIN gens :
        /\ gens[g].st = "done"
        /\ gens[g].read /\ ~gens[g].deleted
        /\ DescLenSum(NumDesc) > 0
        /\ MarkerAt(0) = Star
        /\ Len(gens[g].decoded) >= 1
        /\ gens[g].decoded[1] > RecStart

(***************************************************************************)
(* C18.  A traversal that is driven on terminates: a generator that has    *)
(* been created, or has yielded, comes to return (at the sentinel or at    *)
(* the end of the file) or to raise, whatever the schema (fields of length *)
(* 0 included) and wherever the file ends (in the middle of a record       *)
(* included).  The file bounds its steps: every record it yields has its   *)
(* marker at a byte of the record area, further on than the one before,    *)
(* so that it yields no more records than the record area has bytes.       *)
(***************************************************************************)
C18_TraversalTerminates ==
    /\ [](\A g \in DriveGens :
            LET slots == gens[g].slots
            IN  /\ \A j \in 1..Len(slots) :
                     RecStart <= slots[j] /\ slots[j] < Len(disk.dbf)
                /\ \A j \in 1..(Len(slots) - 1) : slots[j] < slots[j + 1]
                /\ Len(slots) <= Len(disk.dbf) - RecStart)
    /\ \A g \in DriveGens :
         (gens[g].st \in {"new", "suspended"}) ~> (gens[g].st \in {"done", "error"})

\* A traversal has returned after yielding a record of a file that ends in
\* the middle of its last record.
C18_Witness ==
    \E g \in DriveGens :
        /\ gens[g].st = "done"
        /\ Len(gens[g].slots) >= 1
        /\ DescLenSum(NumDesc) > 0
        /\ ~LastRecordWhole

\* A traversal has returned after yielding every record of a file whose
\* fields have length 0.
C18_WitnessZeroLength ==
    \E g \in DriveGens :
        /\ gens[g].st = "done"
        /\ DescLenSum(NumDesc) = 0
        /\ Len(gens[g].slots) = MaxRecArea

(***************************************************************************)
(* C20.  Once the constructor has set it, self.memofile is None exactly    *)
(* when the file has no memo field or the table is in raw mode.  No        *)
(* traversal, load() or query fails with the TypeError of indexing None:   *)
(* a lookup that fails is one on the opened memo file, for a memo field    *)
(* whose bytes decode to a pointer, in decoded mode; and a field that is   *)
(* no memo field, or is read in raw mode, or decodes to None, takes its    *)
(* value from the record's bytes alone.                                    *)
(***************************************************************************)
C20_MemoHandleOpenWhenUsed ==
    /\ pc \in {"memo_ready", "open"} =>
         (memofile = "None" <=> (~AnyMemoDesc \/ args.raw))
    /\ error # "TypeError"
    /\ last.error # "TypeError"
    /\ \A g \in DOMAIN gens :
         LET gen == gens[g]
         IN  /\ gen.error # "TypeError"
             /\ gen.error = "memo_not_found" =>
                  /\ gen.read /\ ~args.raw /\ memofile = "FPT"
                  /\ \E k \in 1..NumDesc :
                       /\ DescType(k) = "M"
                       /\ ~IsBlank(SlotBytes(gen.decoded[Len(gen.decoded)], k))
             /\ gen.read =>
                  \A j \in 1..Len(gen.out), k \in 1..NumDesc :
                      LET data == SlotBytes(gen.slots[j], k)
                          value == gen.out[j][k].value
                      IN  IF args.raw
                          THEN value = [kind |-> "bytes", data |-> data, tag |-> ""]
                          ELSE IF DescType(k) # "M"
                          THEN value = [kind |-> "parsed", data |-> data,
                                        tag |-> DescType(k)]
                          ELSE IF IsBlank(data)
                          THEN value = [kind |-> "text", data |-> <<>>, tag |-> ""]
                          ELSE memofile = "FPT"

\* A decoded-mode traversal has yielded a record whose memo field holds a
\* pointer: the memo was looked up in the opened memo file.
C20_Witness ==
    /\ ~args.raw
    /\ memofile = "FPT"
    /\ \E g \in DOMAIN gens, k \in 1..NumDesc :
         /\ gens[g].read
         /\ DescType(k) = "M"
         /\ Len(gens[g].out) >= 1
         /\ ~IsBlank(SlotBytes(gens[g].slots[1], k))
         /\ gens[g].out[1][k].value.data = <<Ord("M")>> \o SlotBytes(gens[g].slots[1], k)

====
